---- MODULE Spec2Model ----
(***************************************************************************)
(* Crank-Nicolson heat flow of heatflow.ipynb: the 1D run (tridiagonal A,  *)
(* B, spsolve) and the 2D run (five-banded A, M, cgs).  Real numbers are   *)
(* exact rationals <<numerator, denominator>>, so a linear solve returns   *)
(* the solution of A x = b and not a rounded one.                          *)
(***************************************************************************)
EXTENDS Integers, Sequences, FiniteSets, TLC

(***************************************************************************)
(* Bounds of the model.                                                    *)
(***************************************************************************)
\* largest 1D grid length N
MaxN1 == 5
\* largest 2D grid edge length N
MaxN2 == 4
\* largest t_end / steps (number of rows of the trajectory array)
MaxSteps == 3
\* runs are kept to (unknowns^2 * solves) <= MaxWork so that the exact
\* arithmetic stays within the model checker's integers
MaxWork == 32

(***************************************************************************)
(* Exact arithmetic: the values numpy holds as floats.                     *)
(***************************************************************************)
Abs(x) == IF x < 0 THEN -x ELSE x

RECURSIVE GCD(_, _)
GCD(a, b) == IF b = 0 THEN a ELSE GCD(b, a % b)

\* the rational n/d in lowest terms with a positive denominator
Norm(n, d) ==
    LET g == GCD(Abs(n), Abs(d))
        s == IF d < 0 THEN -1 ELSE 1
    IN  <<s * (n \div g), s * (d \div g)>>

Rat(k) == <<k, 1>>

RAdd(p, q) ==
    LET g == GCD(p[2], q[2])
    IN  Norm(p[1] * (q[2] \div g) + q[1] * (p[2] \div g), (p[2] \div g) * q[2])

RNeg(p) == <<-p[1], p[2]>>

RSub(p, q) == RAdd(p, RNeg(q))

RMul(p, q) ==
    LET g1 == GCD(Abs(p[1]), q[2])
        g2 == GCD(Abs(q[1]), p[2])
    IN  Norm((p[1] \div g1) * (q[1] \div g2), (p[2] \div g2) * (q[2] \div g1))

RDiv(p, q) == RMul(p, IF q[1] < 0 THEN <<-q[2], -q[1]>> ELSE <<q[2], q[1]>>)

RLeq(p, q) == p[1] * q[2] <= q[1] * p[2]

RLess(p, q) == p[1] * q[2] < q[1] * p[2]

RAbs(p) == <<Abs(p[1]), p[2]>>

\* the sequence f[1], ..., f[n], built element by element
RECURSIVE Tabulate(_, _)
Tabulate(f, n) == IF n = 0 THEN <<>> ELSE Append(Tabulate(f, n - 1), f[n])

RECURSIVE RSum(_)
RSum(s) == IF s = <<>> THEN Rat(0) ELSE RAdd(s[1], RSum(Tail(s)))

\* matrix-vector product (the @ of lines 161 and 400)
MatVec(Mx, v) ==
    Tabulate([i \in 1..Len(Mx) |->
                RSum(Tabulate([j \in 1..Len(v) |-> RMul(Mx[i][j], v[j])], Len(v)))],
             Len(Mx))

(***************************************************************************)
(* The linear solve A x = b, by Gauss-Jordan elimination on [A | b].       *)
(***************************************************************************)
\* row i of the matrix after clearing column k with pivot row k
ElimRow(Mx, k, i) ==
    IF i = k \/ Mx[i][k][1] = 0 THEN Mx[i]
    ELSE LET f == RDiv(Mx[i][k], Mx[k][k])
         IN  Tabulate([j \in 1..Len(Mx[i]) |-> RSub(Mx[i][j], RMul(f, Mx[k][j]))],
                      Len(Mx[i]))

ElimStep(Mx, k) == Tabulate([i \in 1..Len(Mx) |-> ElimRow(Mx, k, i)], Len(Mx))

RECURSIVE GaussJordan(_, _)
GaussJordan(Mx, k) ==
    IF k > Len(Mx) THEN Mx ELSE GaussJordan(ElimStep(Mx, k), k + 1)

\* the x with A x = b
Solve(A, b) ==
    LET n   == Len(b)
        aug == Tabulate([i \in 1..n |-> Append(A[i], b[i])], n)
        red == GaussJordan(aug, 1)
    IN  Tabulate([i \in 1..n |-> RDiv(red[i][n + 1], red[i][i])], n)

(***************************************************************************)
(* numpy / scipy / skimage helpers                                         *)
(***************************************************************************)
\* np.ones(n) and np.zeros(n)
Ones(n) == Tabulate([k \in 1..n |-> Rat(1)], n)

Zeros(n) == Tabulate([k \in 1..n |-> Rat(0)], n)

\* c * v for an array v
Scale(c, v) == Tabulate([k \in 1..Len(v) |-> RMul(c, v[k])], Len(v))

\* v[:-1]
ButLast(v) == IF Len(v) = 0 THEN v ELSE SubSeq(v, 1, Len(v) - 1)

\* the edge length scipy.sparse.diags infers: len(diagonals[0]) + |offsets[0]|
DiagsSize(diagonals, offsets) == Len(diagonals[1]) + Abs(offsets[1])

\* diags takes the first elements of a diagonal at least as long as its band
\* and broadcasts one of length 1; a shorter diagonal raises ValueError
DiagsOK(diagonals, offsets) ==
    LET m == DiagsSize(diagonals, offsets)
    IN  \A k \in 1..Len(offsets) :
          /\ m - Abs(offsets[k]) >= 0
          /\ \/ Len(diagonals[k]) >= m - Abs(offsets[k])
             \/ Len(diagonals[k]) = 1

\* entry (row, col), both 1-based, of band k: 0 off the band, else the band's
\* element numbered by the smaller of the two indices
BandEntry(diagonals, offsets, k, row, col) ==
    IF col - row # offsets[k] THEN Rat(0)
    ELSE LET e == IF row < col THEN row ELSE col
         IN  IF Len(diagonals[k]) = 1 THEN diagonals[k][1] ELSE diagonals[k][e]

\* scipy.sparse.diags(diagonals, offsets) as a dense matrix (rows of entries)
Diags(diagonals, offsets) ==
    LET m == DiagsSize(diagonals, offsets)
    IN  Tabulate([row \in 1..m |->
          Tabulate([col \in 1..m |->
             RSum(Tabulate([k \in 1..Len(offsets) |->
                     BandEntry(diagonals, offsets, k, row, col)], Len(offsets)))], m)], m)

\* skimage.draw.disk(center, radius): the lattice points strictly inside
Disk(cr, cc, radius) ==
    {p \in ((cr - radius)..(cr + radius)) \X ((cc - radius)..(cc + radius)) :
        (p[1] - cr) * (p[1] - cr) + (p[2] - cc) * (p[2] - cc) < radius * radius}

\* values.reshape((N, N)): row-major rows of a flat array
Reshape(v, n) ==
    Tabulate([row \in 1..n |-> SubSeq(v, (row - 1) * n + 1, row * n)], n)

\* a.flatten(): the rows of a 2D array one after the other
RECURSIVE Flatten(_)
Flatten(a) == IF a = <<>> THEN <<>> ELSE a[1] \o Flatten(Tail(a))

(***************************************************************************)
(* Configuration and assembly                                              *)
(***************************************************************************)
\* the 1D initial array of lines 76-84: background bg, hot on [4N/10, 6N/10),
\* then the two edge values (the code has bg = 0, hot = 100, edges 10)
InitialArr(n, bg, hot, lbc, rbc) ==
    Tabulate([k \in 1..n |->
        LET p == k - 1
        IN  IF p = n - 1 THEN Rat(rbc)
            ELSE IF p = 0 THEN Rat(lbc)
            ELSE IF p >= (4 * n) \div 10 /\ p < (6 * n) \div 10 THEN Rat(hot)
            ELSE Rat(bg)], n)

\* Interior with a slip: arr[:-1], the left edge cell kept
InteriorKeepsEdge(a) == IF Len(a) < 2 THEN <<>> ELSE SubSeq(a, 1, Len(a) - 1)

\* arr[1:-1]
Interior(a) == IF Len(a) < 2 THEN <<>> ELSE SubSeq(a, 2, Len(a) - 1)

\* A1D with a slip: main diagonal 2 in place of 4
A1DWrongDiagonal(n) ==
    LET ones == Ones(n - 2)
    IN  Diags(<<Scale(Rat(-1), ButLast(ones)), Scale(Rat(2), ones),
                Scale(Rat(-1), ButLast(ones))>>, <<-1, 0, 1>>)

\* 1D iteration matrix, line 119
A1D(n) ==
    LET ones == Ones(n - 2)
    IN  Diags(<<Scale(Rat(-1), ButLast(ones)), Scale(Rat(4), ones),
                Scale(Rat(-1), ButLast(ones))>>, <<-1, 0, 1>>)

A1DOK(n) ==
    LET ones == Ones(n - 2)
    IN  DiagsOK(<<Scale(Rat(-1), ButLast(ones)), Scale(Rat(4), ones),
                  Scale(Rat(-1), ButLast(ones))>>, <<-1, 0, 1>>)

\* B1D with a slip: ones on the main diagonal too
B1DWithDiagonal(n) ==
    LET ones == Ones(n - 2)
    IN  Diags(<<ones, ButLast(ones), ButLast(ones)>>, <<0, -1, 1>>)

\* 1D explicit matrix, line 138
B1D(n) ==
    LET ones == Ones(n - 2)
    IN  Diags(<<ButLast(ones), ButLast(ones)>>, <<-1, 1>>)

\* A2D with a slip: the main diagonal of M, 1 - 4r, in place of 1 + 4r
A2DWrongSign(n, rr) ==
    LET d == RSub(Rat(1), RMul(Rat(4), rr))
    IN  Diags(<<Scale(d, Ones(n * n)), Scale(RNeg(rr), Ones(n * n - 1)),
                Scale(RNeg(rr), Ones(n * n - 1)), Scale(RNeg(rr), Ones(n * n - n)),
                Scale(RNeg(rr), Ones(n * n - n))>>, <<0, -1, 1, n, -n>>)

\* 2D iteration matrix, lines 293 and 302
A2D(n, rr) ==
    LET d == RAdd(Rat(1), RMul(Rat(4), rr))
    IN  Diags(<<Scale(d, Ones(n * n)), Scale(RNeg(rr), Ones(n * n - 1)),
                Scale(RNeg(rr), Ones(n * n - 1)), Scale(RNeg(rr), Ones(n * n - n)),
                Scale(RNeg(rr), Ones(n * n - n))>>, <<0, -1, 1, n, -n>>)

\* M2D with a slip: main diagonal -4r, as the matrix is written out in the
\* notebook's text, in place of 1 - 4r
M2DTextDiagonal(n, rr) ==
    LET d == RNeg(RMul(Rat(4), rr))
    IN  Diags(<<Scale(d, Ones(n * n)), Scale(rr, Ones(n * n - 1)),
                Scale(rr, Ones(n * n - 1)), Scale(rr, Ones(n * n - n)),
                Scale(rr, Ones(n * n - n))>>, <<0, -1, 1, -n, n>>)

\* 2D explicit matrix, lines 377 and 386
M2D(n, rr) ==
    LET d == RSub(Rat(1), RMul(Rat(4), rr))
    IN  Diags(<<Scale(d, Ones(n * n)), Scale(rr, Ones(n * n - 1)),
                Scale(rr, Ones(n * n - 1)), Scale(rr, Ones(n * n - n)),
                Scale(rr, Ones(n * n - n))>>, <<0, -1, 1, -n, n>>)

\* the two disks of lines 320-328, as (row, column) positions counted from 0
MaskCells(n, radius) ==
    Disk(n \div 2, n \div 4, radius) \cup Disk(n \div 2, (3 * n) \div 4, radius)

\* values of lines 346-350: base everywhere (the code has 0), maskval on the
\* mask, flattened row-major
InitialValues(n, radius, base, maskval) ==
    Tabulate([k \in 1..(n * n) |->
        IF <<(k - 1) \div n, (k - 1) % n>> \in MaskCells(n, radius)
        THEN Rat(maskval) ELSE Rat(base)], n * n)

(***************************************************************************)
(* State                                                                   *)
(***************************************************************************)
VARIABLES
    dim,              \* 1: the 1D cells of the notebook, 2: the 2D cells
    N,                \* grid (edge) length
    r,                \* 2D diffusion number (line 264)
    left_bc,          \* 1D fixed edge values
    right_bc,
    arr,              \* 1D: the initial array of N values
    mask,             \* 2D: the positions <<row, column>> set by the disks
    t_end,            \* 1D: rows of storage
    steps,            \* 2D: rows of the 2D trajectory
    A,                \* iteration matrix
    B,                \* 1D explicit matrix
    M,                \* 2D explicit matrix
    interior_points,  \* 1D current field (the N-2 interior values)
    values,           \* 2D current field, flat
    storage,          \* 1D trajectory: row number -> row, rows 0..t_end-1
    arr_2d,           \* 2D trajectory (the notebook's second arr)
    i,                \* loop index: the next row to write
    pc,               \* "Assemble", "Initialized", "Stepping", "Completed", "Errored"
    err,              \* the exception that ended the run, "" if none
    info,             \* what cgs last returned beside x (bound to _ and ignored)
    failedAt          \* history: first step whose solve reported info # 0, else 0

vars == <<dim, N, r, left_bc, right_bc, arr, mask, t_end, steps, A, B, M,
          interior_points, values, storage, arr_2d, i, pc, err, info, failedAt>>

config == <<dim, N, r, left_bc, right_bc, arr, mask, t_end, steps>>

\* input values the runs are started with (the code's own are 0, 100, 10, 10)
Backgrounds == {0, 10}

HotValues == {0, 10, 100}

EdgeValues == {0, 10}

\* r = 0.5 is the code's
RValues == {<<1, 2>>, <<1, 1>>, <<2, 1>>}

\* disk radius: the code's N // 15, and 1 so that small grids have a mask
Radii(n) == {n \div 15, 1}

\* the value stamped on the mask, line 348
MaskValue == 10

BaseValues == {0, 10}

\* unknowns squared times solves of a run
Work(d, n, rows) ==
    LET u == IF d = 1 THEN n - 2 ELSE n * n
    IN  u * u * (rows - 1)

Init1D ==
    /\ dim = 1
    /\ N \in 2..MaxN1
    /\ t_end \in 1..MaxSteps
    /\ Work(1, N, t_end) <= MaxWork
    /\ left_bc \in EdgeValues
    /\ right_bc \in EdgeValues
    /\ \E bg \in Backgrounds, hot \in HotValues :
          arr = InitialArr(N, bg, hot, left_bc, right_bc)
    /\ r = <<1, 1>>
    /\ mask = {}
    /\ steps = 0
    /\ values = <<>>

Init2D ==
    /\ dim = 2
    /\ N \in 2..MaxN2
    /\ steps \in 1..MaxSteps
    /\ Work(2, N, steps) <= MaxWork
    /\ r \in RValues
    /\ \E radius \in Radii(N), base \in BaseValues :
          /\ mask = MaskCells(N, radius)
          /\ values = InitialValues(N, radius, base, MaskValue)
    /\ left_bc = 0
    /\ right_bc = 0
    /\ arr = <<>>
    /\ t_end = 0

Init ==
    /\ Init1D \/ Init2D
    /\ A = <<>>
    /\ B = <<>>
    /\ M = <<>>
    /\ interior_points = <<>>
    /\ storage = <<>>
    /\ arr_2d = <<>>
    /\ i = 0
    /\ pc = "Assemble"
    /\ err = ""
    /\ info = 0
    /\ failedAt = 0

(***************************************************************************)
(* Operations                                                              *)
(***************************************************************************)
\* lines 109-138 (1D) and 293-302, 377-386 (2D): build the matrices
Assemble ==
    /\ pc = "Assemble"
    /\ IF dim = 1
       THEN IF A1DOK(N)
            THEN /\ A' = A1D(N)
                 /\ B' = B1D(N)
                 /\ pc' = "Initialized"
                 /\ err' = ""
            ELSE /\ A' = A
                 /\ B' = B
                 /\ pc' = "Errored"
                 /\ err' = "ValueError"
       ELSE /\ A' = A2D(N, r)
            /\ B' = B
            /\ pc' = "Initialized"
            /\ err' = ""
    /\ M' = IF dim = 2 THEN M2D(N, r) ELSE M
    /\ UNCHANGED <<config, interior_points, values, storage, arr_2d, i, info, failedAt>>

\* WriteRow with a slip: the rows up to k all replaced (traj[:k+1] = row)
WriteRowUpTo(traj, k, row) == [j \in DOMAIN traj |-> IF j <= k THEN row ELSE traj[j]]

\* WriteRow with a slip: the row after k replaced (traj[k+1] = row)
WriteRowAfter(traj, k, row) ==
    IF k + 1 \in DOMAIN traj THEN [traj EXCEPT ![k + 1] = row] ELSE traj

\* row k of a trajectory array replaced
WriteRow(traj, k, row) == [traj EXCEPT ![k] = row]

\* lines 149-152 (1D) and 396-397 (2D): allocate the trajectory, record row 0
Start ==
    /\ pc = "Initialized"
    /\ IF dim = 1
       THEN /\ interior_points' = Interior(arr)
            /\ storage' = WriteRow([k \in 0..(t_end - 1) |-> Zeros(N - 2)], 0, Interior(arr))
            /\ arr_2d' = arr_2d
       ELSE /\ arr_2d' = WriteRow([k \in 0..(steps - 1) |-> Reshape(Zeros(N * N), N)], 0,
                                  Reshape(values, N))
            /\ storage' = storage
            /\ interior_points' = interior_points
    /\ i' = 1
    /\ pc' = "Stepping"
    /\ UNCHANGED <<config, A, B, M, values, err, info, failedAt>>

\* Rhs1D with a slip: the neighbour values read after the product, from B@field
Rhs1DReadsProduct(ip) ==
    LET n          == Len(ip)
        b          == MatVec(B, ip)
        left_side  == b[2]
        right_side == b[n - 1]
    IN  [b EXCEPT ![1] = RAdd(Rat(2 * left_bc), left_side),
                  ![n] = RAdd(Rat(2 * right_bc), right_side)]

\* Rhs1D with a slip: the edge value injected once, not twice
Rhs1DSingleEdge(ip) ==
    LET n          == Len(ip)
        left_side  == ip[2]
        right_side == ip[n - 1]
        b          == MatVec(B, ip)
    IN  [b EXCEPT ![1] = RAdd(Rat(left_bc), left_side),
                  ![n] = RAdd(Rat(right_bc), right_side)]

\* lines 156-165: right-hand side of a 1D step
Rhs1D(ip) ==
    LET n          == Len(ip)
        left_side  == ip[2]
        right_side == ip[n - 1]
        b          == MatVec(B, ip)
    IN  [b EXCEPT ![1] = RAdd(Rat(2 * left_bc), left_side),
                  ![n] = RAdd(Rat(2 * right_bc), right_side)]

\* lines 154-169: one pass of the 1D loop
Step1D ==
    /\ pc = "Stepping"
    /\ dim = 1
    /\ i < t_end
    /\ IF Len(interior_points) < 2
       THEN \* interior_points[1] is out of range
            /\ pc' = "Errored"
            /\ err' = "IndexError"
            /\ UNCHANGED <<interior_points, storage, i>>
       ELSE LET x == Solve(A, Rhs1D(interior_points))
            IN  /\ interior_points' = x
                /\ storage' = WriteRow(storage, i, x)
                /\ i' = i + 1
                /\ UNCHANGED <<pc, err>>
    /\ UNCHANGED <<config, A, B, M, values, arr_2d, info, failedAt>>

\* what cgs hands back when it gives up: modelled as its starting guess x0 = 0
Unconverged(b) == Zeros(Len(b))

\* lines 399-401: one pass of the 2D loop; cgs returns (x, info), info = 0 on
\* convergence; a zero right-hand side always converges at once
Step2D ==
    /\ pc = "Stepping"
    /\ dim = 2
    /\ i < steps
    /\ LET b == MatVec(M, values)
       IN  \E code \in {0, 1} :
             /\ code = 1 => b # Zeros(Len(b))
             /\ info' = code
             /\ values' = IF code = 0 THEN Solve(A, b) ELSE Unconverged(b)
             /\ failedAt' = IF code # 0 /\ failedAt = 0 THEN i ELSE failedAt
    /\ arr_2d' = WriteRow(arr_2d, i, Reshape(values', N))
    /\ i' = i + 1
    /\ UNCHANGED <<config, A, B, M, interior_points, storage, pc, err>>

\* the for loop runs out: range(1, t_end) / range(1, steps) is exhausted
Finish ==
    /\ pc = "Stepping"
    /\ i >= (IF dim = 1 THEN t_end ELSE steps)
    /\ pc' = "Completed"
    /\ UNCHANGED <<config, A, B, M, interior_points, values, storage, arr_2d, i, err,
                   info, failedAt>>

Next == Assemble \/ Start \/ Step1D \/ Step2D \/ Finish

Spec == Init /\ [][Next]_vars

(***************************************************************************)
(* Properties                                                              *)
(***************************************************************************)
\* the configured number of trajectory rows
Rows == IF dim = 1 THEN t_end ELSE steps

\* the numbers of the rows written so far: 0 .. i-1
RecordedRows == 0..(i - 1)

\* every element of the sequence s equals the rational q
AllEqual(s, q) == \A k \in 1..Len(s) : s[k] = q

\* every solve so far converged (1D solves are direct and always do)
NoSolveFailed == failedAt = 0

\* C1 (as claimed, for runs whose solves all converge): in every recorded
\* snapshot every boundary position holds its fixed value: in 1D the two edge
\* cells of the field, in 2D every position of the mask holds MaskValue.
C1_BoundaryHeld ==
    NoSolveFailed =>
      /\ dim = 1 /\ pc # "Assemble" => arr[1] = Rat(left_bc) /\ arr[N] = Rat(right_bc)
      /\ dim = 2 =>
           \A n \in RecordedRows : \A p \in mask :
              arr_2d[n][p[1] + 1][p[2] + 1] = Rat(MaskValue)

\* C2 (as claimed): for N >= 3 neither assembled 2D matrix couples the last
\* cell of a lattice row (flat index row*N + N-1) with the first cell of the
\* next row (flat index (row+1)*N), in either direction.
C2_NoWrap ==
    (dim = 2 /\ N >= 3 /\ pc # "Assemble") =>
      \A row \in 0..(N - 2) :
         LET last  == row * N + (N - 1) + 1
             first == (row + 1) * N + 1
         IN  /\ A[last][first] = Rat(0)
             /\ A[first][last] = Rat(0)
             /\ M[last][first] = Rat(0)
             /\ M[first][last] = Rat(0)

\* C3 (as claimed): once a solve has reported failure at step k the run is in
\* Errored and exactly the rows 0..k-1 are recorded.
C3_FailureAborts ==
    failedAt # 0 => (pc = "Errored" /\ i = failedAt)

\* C4 (as claimed, counting one time step per pass of the loop): a run on a
\* valid grid (N >= 3) in which no solve failed ends in Completed, with every
\* configured row written.
C4_CompletesAllSteps ==
    (pc \in {"Completed", "Errored"} /\ N >= 3 /\ NoSolveFailed) =>
      (pc = "Completed" /\ i = Rows)

\* C5 (as claimed): with N < 3 the run never gets past assembly: it is still
\* to be assembled or has failed, and nothing is recorded.
C5_SmallGridRejected ==
    N < 3 => (pc \in {"Assemble", "Errored"} /\ i = 0)

\* the values of row n of the trajectory, as one flat sequence
Snapshot(n) == IF dim = 1 THEN storage[n] ELSE Flatten(arr_2d[n])

\* the whole initial field: in 1D the N cells of arr, in 2D row 0
InitialField == IF dim = 1 THEN arr ELSE Flatten(arr_2d[0])

\* the run started from the field that is v everywhere, boundary cells included
StartedConstant(v) == i >= 1 /\ AllEqual(InitialField, Rat(v))

ConstantValues == Backgrounds \cup HotValues \cup EdgeValues \cup BaseValues

\* C6 (as claimed): in 1D and in 2D, a run started from a constant field v with
\* boundaries v has every recorded snapshot constant v.
C6_ConstantStays ==
    NoSolveFailed =>
      \A v \in ConstantValues :
         StartedConstant(v) => \A n \in RecordedRows : AllEqual(Snapshot(n), Rat(v))

\* C6 (amended): in 1D a run started from a constant field v with both edge
\* values v has every recorded snapshot constant v; in 2D this holds for v = 0.
C6_ConstantStays1D ==
    NoSolveFailed =>
      \A v \in ConstantValues :
         (StartedConstant(v) /\ (dim = 1 \/ v = 0)) =>
            \A n \in RecordedRows : AllEqual(Snapshot(n), Rat(v))

\* a 1D run from a nonzero constant field that has made two steps
C6_Witness ==
    /\ dim = 1
    /\ pc = "Completed"
    /\ i = 3
    /\ StartedConstant(10)
    /\ interior_points = storage[2]

\* the 1D run of the notebook's own configuration: 0, hot 100, edges 10
CodeConfig1D == dim = 1 /\ arr = InitialArr(N, 0, 100, 10, 10)

RECURSIVE RMin(_)
RMin(s) == IF Len(s) = 1 THEN s[1]
           ELSE LET m == RMin(Tail(s)) IN IF RLeq(s[1], m) THEN s[1] ELSE m

RECURSIVE RMax(_)
RMax(s) == IF Len(s) = 1 THEN s[1]
           ELSE LET m == RMax(Tail(s)) IN IF RLeq(m, s[1]) THEN s[1] ELSE m

\* C7 (as claimed): in the 1D run of the notebook's configuration every value
\* of every recorded snapshot lies in [10, 100].
C7_WithinEdgeAndHot ==
    CodeConfig1D =>
      \A n \in RecordedRows : \A k \in 1..Len(storage[n]) :
         RLeq(Rat(10), storage[n][k]) /\ RLeq(storage[n][k], Rat(100))

\* C7 (amended): every value of every recorded snapshot of a 1D run lies between
\* the least and the greatest value of the initial field, edge cells included;
\* for the notebook's configuration that is [0, 100].
C7_MaximumPrinciple ==
    dim = 1 =>
      \A n \in RecordedRows : \A k \in 1..Len(storage[n]) :
         /\ RLeq(RMin(arr), storage[n][k])
         /\ RLeq(storage[n][k], RMax(arr))
         /\ CodeConfig1D => RLeq(Rat(0), storage[n][k]) /\ RLeq(storage[n][k], Rat(100))

\* the notebook's configuration after two steps: row 0 holds a 0, below the
\* edge value 10, and the last row has moved away from row 0
C7_Witness ==
    /\ CodeConfig1D
    /\ pc = "Completed"
    /\ i = 3
    /\ \E k \in 1..Len(storage[0]) : storage[0][k] = Rat(0)
    /\ \E k \in 1..Len(storage[0]) : storage[0][k] = Rat(100)
    /\ \A k \in 1..Len(storage[2]) :
          RLess(Rat(0), storage[2][k]) /\ RLess(storage[2][k], Rat(100))

\* the sum of |A[row][col]| over the columns other than row
OffDiagonalSum(Mx, row) ==
    RSum(Tabulate([col \in 1..Len(Mx) |->
            IF col = row THEN Rat(0) ELSE RAbs(Mx[row][col])], Len(Mx)))

\* C8: every row of the assembled A is strictly diagonally dominant: in 1D the
\* diagonal is 4 and the off-diagonal magnitudes sum to at most 2, in 2D the
\* diagonal is 1 + 4r and they sum to at most 4r.
C8_DiagonallyDominant ==
    A # <<>> =>
      \A row \in 1..Len(A) :
         /\ RLess(OffDiagonalSum(A, row), A[row][row])
         /\ dim = 1 => A[row][row] = Rat(4) /\ RLeq(OffDiagonalSum(A, row), Rat(2))
         /\ dim = 2 => /\ A[row][row] = RAdd(Rat(1), RMul(Rat(4), r))
                       /\ RLeq(OffDiagonalSum(A, row), RMul(Rat(4), r))

\* an assembled 2D matrix with the code's r = 1/2 that has a row with four
\* off-diagonal entries, and an assembled 1D matrix with a full interior row
C8_Witness ==
    \/ /\ dim = 2 /\ N >= 3 /\ r = <<1, 2>> /\ A # <<>>
       /\ \E row \in 1..Len(A) : OffDiagonalSum(A, row) = Rat(2)
    \/ /\ dim = 1 /\ N >= 5 /\ A # <<>>
       /\ \E row \in 1..Len(A) : OffDiagonalSum(A, row) = Rat(2)

\* C9 (as claimed): every recorded snapshot has as many values as the grid has
\* cells: N in 1D, N*N in 2D.
C9_SnapshotIsGridSize ==
    \A n \in RecordedRows : Len(Snapshot(n)) = (IF dim = 1 THEN N ELSE N * N)

\* C9 (amended): every recorded 1D snapshot has the N-2 interior values (the
\* two edge cells are not stored); every recorded 2D snapshot has N rows of N
\* values.
C9_SnapshotLength ==
    \A n \in RecordedRows :
       /\ dim = 1 => Len(storage[n]) = N - 2
       /\ dim = 2 => /\ Len(arr_2d[n]) = N
                     /\ \A row \in 1..N : Len(arr_2d[n][row]) = N

\* finished runs of both kinds with more than one row
C9_Witness ==
    /\ pc = "Completed"
    /\ i >= 2
    /\ \/ dim = 1 /\ N = 5 /\ Len(storage[i - 1]) = 3
       \/ dim = 2 /\ N = 2 /\ Len(arr_2d[i - 1]) = 2

\* C10: a row that has been recorded is never changed by a later step.
C10_SnapshotsImmutable ==
    [][\A k \in RecordedRows :
          /\ dim = 1 => storage'[k] = storage[k]
          /\ dim = 2 => arr_2d'[k] = arr_2d[k]]_vars

\* a finished run of three rows whose last row differs from its row 0, which
\* still is the initial field
C10_Witness ==
    /\ pc = "Completed"
    /\ i = 3
    /\ \/ dim = 1 /\ storage[0] = Interior(arr) /\ storage[2] # storage[0]
       \/ dim = 2 /\ arr_2d[2] # arr_2d[0]

\* the field after n steps as the configuration alone fixes it: the initial
\* field for n = 0, else one step (right-hand side, solve) from the field
\* before
RECURSIVE FieldAfter(_)
FieldAfter(n) ==
    IF n = 0 THEN (IF dim = 1 THEN Interior(arr) ELSE Flatten(arr_2d[0]))
    ELSE IF dim = 1 THEN Solve(A, Rhs1D(FieldAfter(n - 1)))
    ELSE Solve(A, MatVec(M, FieldAfter(n - 1)))

\* how a run of this configuration ends when its solves converge: the 1D
\* assembly fails for N = 2, the first 1D step fails for N = 3
EndOfRun ==
    IF dim = 1 /\ (N = 2 \/ (N = 3 /\ t_end >= 2)) THEN "Errored" ELSE "Completed"

\* the rows such a run has written when it ends
RowsAtEnd ==
    IF dim = 1 /\ N = 2 THEN 0
    ELSE IF dim = 1 /\ N = 3 /\ t_end >= 2 THEN 1
    ELSE Rows

StepReady1D == dim = 1 /\ pc = "Stepping" /\ Len(interior_points) >= 2

\* C12: in a 1D step the field the right-hand side is built from is the row
\* recorded by the step before; slot 0 of the right-hand side is 2*left plus
\* that field's index-1 value and the last slot is 2*right plus its
\* second-to-last value, which is B*field with 2*left and 2*right added to
\* slots 0 and last; every other slot is that of B*field.
C12_BoundaryInjection ==
    StepReady1D =>
      LET u  == interior_points
          n  == Len(u)
          b  == Rhs1D(u)
          Bu == MatVec(B, u)
      IN  /\ u = storage[i - 1]
          /\ b[1] = RAdd(Rat(2 * left_bc), u[2])
          /\ b[n] = RAdd(Rat(2 * right_bc), u[n - 1])
          /\ b[1] = RAdd(Bu[1], Rat(2 * left_bc))
          /\ b[n] = RAdd(Bu[n], Rat(2 * right_bc))
          /\ \A k \in 2..(n - 1) : b[k] = Bu[k]

\* the second step of a run with three interior cells, nonzero edge values and
\* a field whose index-1 value differs from that of B*field
C12_Witness ==
    /\ StepReady1D
    /\ N = 5
    /\ i = 2
    /\ left_bc = 10
    /\ right_bc = 10
    /\ interior_points[2] # MatVec(B, interior_points)[2]
    /\ interior_points # storage[0]

\* the matrix Mx has d on its main diagonal, o wherever the column is off the
\* row by one of the distances in offs, and 0 everywhere else
Banded(Mx, d, o, offs) ==
    \A row \in 1..Len(Mx) :
       /\ Len(Mx[row]) = Len(Mx)
       /\ \A col \in 1..Len(Mx) :
             Mx[row][col] = (IF col = row THEN d
                             ELSE IF Abs(col - row) \in offs THEN o
                             ELSE Rat(0))

Symmetric(Mx) == \A row \in 1..Len(Mx) : \A col \in 1..Len(Mx) : Mx[row][col] = Mx[col][row]

\* C13: the assembled 1D A has 2(1+r) = 4 on its main diagonal and -r = -1 next
\* to it, B has 0 on its main diagonal and r = 1 next to it, both are 0
\* elsewhere and N-2 square; and every interior row k of a recorded step
\* satisfies -x[k-1] + 4 x[k] - x[k+1] = u[k-1] + u[k+1] for the row x written
\* from the row u before it.
C13_Tridiagonal ==
    (dim = 1 /\ A # <<>>) =>
      /\ Len(A) = N - 2
      /\ Len(B) = N - 2
      /\ Banded(A, RMul(Rat(2), RAdd(Rat(1), r)), RNeg(r), {1})
      /\ Banded(A, Rat(4), Rat(-1), {1})
      /\ Banded(B, Rat(0), r, {1})
      /\ Banded(B, Rat(0), Rat(1), {1})
      /\ \A n \in RecordedRows \ {0} :
            LET x == storage[n]
                u == storage[n - 1]
            IN  \A k \in 2..(Len(x) - 1) :
                   RAdd(RSub(RMul(Rat(4), x[k]), x[k - 1]), RNeg(x[k + 1]))
                     = RAdd(u[k - 1], u[k + 1])

\* a finished 1D run of three rows with an interior row of the system, whose
\* field moved at each step
C13_Witness ==
    /\ dim = 1
    /\ N = 5
    /\ pc = "Completed"
    /\ i = 3
    /\ A[2] = <<Rat(-1), Rat(4), Rat(-1)>>
    /\ B[2] = <<Rat(1), Rat(0), Rat(1)>>
    /\ storage[1][2] # storage[0][2]
    /\ storage[2][2] # storage[1][2]

====
